---- MODULE Spec2Model ----
(***************************************************************************)
(* Model of FunctionalEnrichmentUtil (kb_functional_enrichment_1):         *)
(* run_fe1 and the helpers it calls, as a state machine whose steps are    *)
(* the calls run_fe1 makes, in the order the source makes them.            *)
(*                                                                         *)
(* Python dicts are TLA+ functions (DOMAIN = keys); Python lists are       *)
(* sequences (1-based here, 0-based in the source).  Ontology identifiers  *)
(* are sequences of one-character strings, so that the regular expression  *)
(* of _get_go_maps_from_genome is computed character by character.         *)
(* p-values are exact rationals <<numerator, denominator>> in lowest       *)
(* terms, so equality of two p-values is equality of tuples.               *)
(***************************************************************************)
EXTENDS Integers, Sequences, FiniteSets, TLC

\* ------------------------------------------------------------------ bounds
\* How many identifiers of FeaturePool a genome may draw its features from.
MaxFeatureIds == 6
\* How many identifiers of AnnotatablePool may carry ontology terms.
MaxAnnotated == 3

\* ------------------------------------------------------- rational numbers
RECURSIVE Gcd(_, _)
Gcd(x, y) == IF y = 0 THEN x ELSE Gcd(y, x % y)

Abs(x) == IF x < 0 THEN -x ELSE x

\* n/d in lowest terms with a positive denominator (d > 0 is required).
Rat(n, d) == LET g == Gcd(Abs(n), d) IN <<n \div g, d \div g>>

RZero == <<0, 1>>
ROne == <<1, 1>>
RAdd(x, y) == Rat(x[1] * y[2] + y[1] * x[2], x[2] * y[2])
RScale(k, j, x) == Rat(k * x[1], j * x[2])
RLe(x, y) == x[1] * y[2] <= y[1] * x[2]
RLt(x, y) == x[1] * y[2] < y[1] * x[2]
RMin(x, y) == IF RLe(x, y) THEN x ELSE y

IMin(x, y) == IF x <= y THEN x ELSE y
IMax(x, y) == IF x >= y THEN x ELSE y

\* --------------------------------------------------- fisher.pvalue (l.243)
RECURSIVE Choose(_, _)
Choose(n, k) ==
    IF k < 0 \/ k > n THEN 0
    ELSE IF k = 0 THEN 1
    ELSE (Choose(n - 1, k - 1) * n) \div k

\* The hypergeometric probability of x annotated features among the n of the
\* study, C annotated in a population of N.
HypergeometricProbability(x, n, C, N) ==
    Rat(Choose(C, x) * Choose(N - C, n - x), Choose(N, n))

RECURSIVE TailSum(_, _, _, _, _)
TailSum(lo, hi, n, C, N) ==
    IF lo > hi THEN RZero
    ELSE RAdd(HypergeometricProbability(lo, n, C, N), TailSum(lo + 1, hi, n, C, N))

\* fisher.pvalue(a, b, c, d).left_tail: the sum of the hypergeometric
\* probabilities of the tables x = lm .. um with x <= a, capped at 1; the
\* library returns 1 for every tail when the support lm .. um is one point.
\* The support is computed from the marginals alone, so a table with a
\* negative cell whose support is empty or lies above a sums nothing.
LeftTail(a, b, c, d) ==
    LET n == a + b
        C == a + c
        N == a + b + c + d
        um == IMin(n, C)
        lm == IMax(0, n + C - N)
    IN IF um = lm THEN ROne
       ELSE RMin(ROne, TailSum(lm, IMin(um, a), n, C, N))

\* ---------------------------------- stats.p_adjust(., method='fdr') (l.248)
\* R's order(p, decreasing = TRUE): the place of index j in the ordering.
OrderPos(p, j) ==
    1 + Cardinality({l \in 1..Len(p) : RLt(p[j], p[l])})
      + Cardinality({l \in 1..(j - 1) : p[l] = p[j]})

\* o[q]: the index that stands at place q of the ordering.
OrderAt(p, q) == CHOOSE j \in 1..Len(p) : OrderPos(p, j) = q

\* cummin(n / i * p[o]) at place q, with i = n, n-1, .., 1.
RECURSIVE CumMin(_, _)
CumMin(p, q) ==
    LET n == Len(p)
        here == RScale(n, n - q + 1, p[OrderAt(p, q)])
    IN IF q = 1 THEN here ELSE RMin(CumMin(p, q - 1), here)

\* A mutant of PAdjust: the factor i / n in place of n / i.
PAdjustInverted(p) ==
    [j \in 1..Len(p) |->
        RMin(ROne, RScale(Len(p) - OrderPos(p, j) + 1, Len(p), p[j]))]

\* p.adjust(p, "BH"): p itself when it holds at most one value, else
\* pmin(1, cummin(n / i * p[o]))[ro].
PAdjust(p) ==
    IF Len(p) <= 1 THEN p
    ELSE [j \in 1..Len(p) |-> RMin(ROne, CumMin(p, OrderPos(p, j)))]

\* ------------------------------------------------------------ identifiers
\* Feature identifiers in the order of sort_by feature_id (l.150); a genome
\* draws its features from the first MaxFeatureIds of them.
FeaturePool ==
    <<"AT1G01010", "AT1G01020", "AT1G01030", "AT1G01040", "AT1G01050",
      "AT1G01060", "AT1G01070", "AT1G01080", "AT1G01090">>

FeatureCandidates ==
    {FeaturePool[k] : k \in 1..IMin(MaxFeatureIds, Len(FeaturePool))}

\* The features that may carry ontology terms in a genome searched are among
\* the first MaxAnnotated of these: features of the set of interest and
\* others by turns.
AnnotatablePool ==
    <<"AT1G01010", "AT1G01040", "AT1G01020", "AT1G01070", "AT1G01030",
      "AT1G01080", "AT1G01050", "AT1G01090", "AT1G01060">>

Annotatable ==
    {AnnotatablePool[k] : k \in 1..IMin(MaxAnnotated, Len(AnnotatablePool))}
       \cap FeatureCandidates

\* _get_feature_set_ids (l.186-189): the fixed list of the source.
FeatureSetIds ==
    <<"AT1G01010", "AT1G01030", "AT1G01020", "AT1G01050", "AT1G01060">>

\* Ontology identifiers a record may carry: "GO:0001", "go:0002", "GO:mf"
\* and "EC:1.1.1.1".
GO0001 == <<"G", "O", ":", "0", "0", "0", "1">>
go0002 == <<"g", "o", ":", "0", "0", "0", "2">>
GOmf == <<"G", "O", ":", "m", "f">>
EC1111 == <<"E", "C", ":", "1", ".", "1", ".", "1", ".", "1">>
OntologyIds == {GO0001, go0002, GOmf, EC1111}

\* The label the ontology gives an identifier.  "U+03B1-amylase" stands for
\* the label u"α-amylase", whose first character is not ASCII.
TermName(id) ==
    CASE id = GO0001 -> "test process"
      [] id = go0002 -> "other"
      [] id = GOmf -> "U+03B1-amylase"
      [] OTHER -> "alcohol dehydrogenase"

\* The labels that hold a character outside ASCII.
NonAsciiLabels == {"U+03B1-amylase"}

\* A mutant of IsGoId: no filter on the namespace.
IsAnyId(ontology_id) == Len(ontology_id) >= 0

\* re.match('[gG][oO]\:.*', ontology_id) (l.168): anchored at the start,
\* and .* matches any rest, the empty one included.
IsGoId(ontology_id) ==
    /\ Len(ontology_id) >= 3
    /\ ontology_id[1] \in {"g", "G"}
    /\ ontology_id[2] \in {"o", "O"}
    /\ ontology_id[3] = ":"

\* --------------------------------------------------------------- dicts
EmptyDict == << >>
\* d.update({k: v})
Update(d, k, v) == [x \in (DOMAIN d) \cup {k} |-> IF x = k THEN v ELSE d[x]]
Range(s) == {s[k] : k \in DOMAIN s}

\* ------------------------------------ _get_go_maps_from_genome (l.141-184)
\* go_id_list of one record (l.165-170): the identifiers of ontology_terms
\* that match, in the dict's iteration order.  ontology_terms is the
\* sequence of the dict's (identifier, label) items in that order; None and
\* the empty dict are both the empty sequence (l.166 treats them alike).
RECURSIVE GoIdList(_)
GoIdList(ontology_terms) ==
    IF ontology_terms = << >> THEN << >>
    ELSE IF IsGoId(Head(ontology_terms)[1])
         THEN <<Head(ontology_terms)[1]>> \o GoIdList(Tail(ontology_terms))
         ELSE GoIdList(Tail(ontology_terms))

\* go_id_go_term_map after the items of one record (l.167-169).
RECURSIVE UpdateTerms(_, _)
UpdateTerms(go_id_go_term, ontology_terms) ==
    IF ontology_terms = << >> THEN go_id_go_term
    ELSE LET e == Head(ontology_terms)
         IN UpdateTerms(IF IsGoId(e[1]) THEN Update(go_id_go_term, e[1], e[2])
                        ELSE go_id_go_term,
                        Tail(ontology_terms))

\* A mutant of AppendFeature: only the first feature of a term is kept.
AppendFeatureFirstOnly(go_id_feature_id_list, go_id, feature_id) ==
    IF go_id \in DOMAIN go_id_feature_id_list
    THEN go_id_feature_id_list
    ELSE Update(go_id_feature_id_list, go_id, <<feature_id>>)

\* l.176-181: one go_id of one record.
AppendFeature(go_id_feature_id_list, go_id, feature_id) ==
    IF go_id \in DOMAIN go_id_feature_id_list
    THEN Update(go_id_feature_id_list, go_id,
                Append(go_id_feature_id_list[go_id], feature_id))
    ELSE Update(go_id_feature_id_list, go_id, <<feature_id>>)

\* l.175-181: every go_id of one record.
RECURSIVE AppendFeatures(_, _, _)
AppendFeatures(go_id_feature_id_list, go_id_list, feature_id) ==
    IF go_id_list = << >> THEN go_id_feature_id_list
    ELSE AppendFeatures(
             AppendFeature(go_id_feature_id_list, Head(go_id_list), feature_id),
             Tail(go_id_list), feature_id)

NoMaps ==
    [feature_id_go_id_list_map |-> EmptyDict,
     go_id_feature_id_list_map |-> EmptyDict,
     go_id_go_term_map |-> EmptyDict,
     feature_id_feature_info_map |-> EmptyDict]

\* One iteration of the loop over genome_features (l.156-181).
ParseFeature(maps, genome_feature) ==
    LET feature_id == genome_feature.feature_id
        go_id_list == GoIdList(genome_feature.ontology_terms)
    IN [feature_id_feature_info_map |->
            Update(maps.feature_id_feature_info_map, feature_id,
                   [function |-> genome_feature.function,
                    feature_type |-> genome_feature.feature_type]),
        go_id_go_term_map |->
            UpdateTerms(maps.go_id_go_term_map, genome_feature.ontology_terms),
        feature_id_go_id_list_map |->
            IF go_id_list # << >>
            THEN Update(maps.feature_id_go_id_list_map, feature_id, go_id_list)
            ELSE maps.feature_id_go_id_list_map,
        go_id_feature_id_list_map |->
            AppendFeatures(maps.go_id_feature_id_list_map, go_id_list, feature_id)]

\* The loop over the first k records.
RECURSIVE GetGoMaps(_, _)
GetGoMaps(genome_features, k) ==
    IF k = 0 THEN NoMaps
    ELSE ParseFeature(GetGoMaps(genome_features, k - 1), genome_features[k])

\* ------------------------------------------------- the genomes searched
\* The items of a dict of ontology terms, in the dict's iteration order,
\* each identifier with the label of its term.
Items(ids) == [k \in 1..Len(ids) |-> <<ids[k], TermName(ids[k])>>]

\* The dicts a record may carry as ontology_terms; the source does not fix
\* the order in which iteritems (l.167) yields the items of a dict, so a
\* dict of two items stands here in both orders.
OntologyChoices ==
    {Items(<<GO0001>>), Items(<<go0002>>), Items(<<GOmf>>), Items(<<EC1111>>),
     Items(<<GO0001, go0002>>), Items(<<go0002, GO0001>>),
     Items(<<EC1111, GO0001>>), Items(<<GO0001, EC1111>>)}

\* The records of the features U, those of An carrying the terms f gives,
\* in the order of their identifiers (sort_by feature_id ascending, l.150).
GenomeOf(U, An, f) ==
    LET ids == SelectSeq(FeaturePool, LAMBDA x : x \in U)
    IN [k \in 1..Len(ids) |->
          [feature_id |-> ids[k],
           function |-> "unknown protein",
           feature_type |-> "gene",
           ontology_terms |-> IF ids[k] \in An THEN f[ids[k]] ELSE << >>]]

\* A record without ontology terms enters run_fe1 only through the number of
\* the genome's features (l.227, l.241): the genomes searched hold, beside
\* the annotated features An, the first j of the other identifiers.
Unannotated(An, j) ==
    LET rest == SelectSeq(FeaturePool, LAMBDA x : x \in FeatureCandidates \ An)
    IN {rest[k] : k \in 1..j}

\* ------------------------------------------------------------- the state
ParamKeys == {"genome_ref", "workspace_name"}

VARIABLES
    pc,                          \* where run_fe1 stands
    params,                      \* the keys of params
    error,                       \* the exception raised, or "none"
    result_directory,            \* whether _mkdir_p has made it
    gsu_calls,                   \* how many gsu.search calls were made
    feature_num,                 \* num_found of the first search (l.146), -1
                                 \* outside _get_go_maps_from_genome
    genome_features,             \* the records the second search returned
    feature_id_go_id_list_map,
    go_id_feature_id_list_map,
    go_id_go_term_map,
    feature_id_feature_info_map,
    tables,                      \* go_id -> the a, b, c, d of its iteration
    go_order,                    \* the go_ids in the order of the loop l.232
    all_raw_p_value,
    go_raw_p_value,
    p_adjust_calls,              \* the vectors stats.p_adjust was given
    adjusted_p_values,
    enrichment_map,
    report_calls                 \* the maps _generate_report was given

vars ==
    <<pc, params, error, result_directory, gsu_calls, feature_num,
      genome_features,
      feature_id_go_id_list_map, go_id_feature_id_list_map, go_id_go_term_map,
      feature_id_feature_info_map, tables, go_order, all_raw_p_value,
      go_raw_p_value, p_adjust_calls, adjusted_p_values, enrichment_map,
      report_calls>>

mapVars ==
    <<genome_features, feature_id_go_id_list_map, go_id_feature_id_list_map,
      go_id_go_term_map, feature_id_feature_info_map>>
loopVars == <<tables, go_order, all_raw_p_value, go_raw_p_value>>

Init ==
    /\ pc = "validate"
    /\ params \in SUBSET ParamKeys
    /\ error = "none"
    /\ result_directory = FALSE
    /\ gsu_calls = 0
    /\ feature_num = -1
    /\ genome_features = << >>
    /\ feature_id_go_id_list_map = EmptyDict
    /\ go_id_feature_id_list_map = EmptyDict
    /\ go_id_go_term_map = EmptyDict
    /\ feature_id_feature_info_map = EmptyDict
    /\ tables = EmptyDict
    /\ go_order = << >>
    /\ all_raw_p_value = << >>
    /\ go_raw_p_value = EmptyDict
    /\ p_adjust_calls = << >>
    /\ adjusted_p_values = << >>
    /\ enrichment_map = EmptyDict
    /\ report_calls = << >>

\* A mutant of ValidateRunFe1Params: only genome_ref is required.
ValidateGenomeRefOnly ==
    /\ pc = "validate"
    /\ IF "genome_ref" \notin params
       THEN /\ error' = "ValueError: \"genome_ref\" parameter is required, but missing"
            /\ pc' = "raised"
       ELSE /\ error' = error
            /\ pc' = "mkdir"
    /\ UNCHANGED <<params, result_directory, gsu_calls, feature_num, mapVars, loopVars,
                   p_adjust_calls, adjusted_p_values, enrichment_map, report_calls>>

\* _validate_run_fe1_params (l.40-51): the first missing key, in the order
\* of the list l.49, raises ValueError.
ValidateRunFe1Params ==
    /\ pc = "validate"
    /\ IF "genome_ref" \notin params
       THEN /\ error' = "ValueError: \"genome_ref\" parameter is required, but missing"
            /\ pc' = "raised"
       ELSE IF "workspace_name" \notin params
       THEN /\ error' = "ValueError: \"workspace_name\" parameter is required, but missing"
            /\ pc' = "raised"
       ELSE /\ error' = error
            /\ pc' = "mkdir"
    /\ UNCHANGED <<params, result_directory, gsu_calls, feature_num, mapVars, loopVars,
                   p_adjust_calls, adjusted_p_values, enrichment_map, report_calls>>

\* l.219-220: _mkdir_p makes the result directory (or finds it there,
\* l.35-36), or os.makedirs fails otherwise and OSError is raised again
\* (l.37-38).
MkdirP ==
    /\ pc = "mkdir"
    /\ \/ /\ result_directory' = TRUE
          /\ pc' = "search"
          /\ error' = error
       \/ /\ result_directory' = result_directory
          /\ pc' = "raised"
          /\ error' = "OSError"
    /\ UNCHANGED <<params, gsu_calls, feature_num, mapVars, loopVars,
                   p_adjust_calls, adjusted_p_values, enrichment_map, report_calls>>

\* l.146: the first search of _get_go_maps_from_genome, for num_found; the
\* remote call answers or raises.
SearchNumFound ==
    /\ pc = "search"
    /\ gsu_calls' = gsu_calls + 1
    /\ \/ /\ \E n \in 0..Cardinality(FeatureCandidates) : feature_num' = n
          /\ pc' = "features"
          /\ error' = error
       \/ /\ feature_num' = feature_num
          /\ pc' = "raised"
          /\ error' = "ServerError"
    /\ UNCHANGED <<params, result_directory, mapVars, loopVars, p_adjust_calls,
                   adjusted_p_values, enrichment_map, report_calls>>

\* l.148-184: the second search, which answers with at most feature_num
\* records of the genome as it then is, in the order of feature_id, or
\* raises; then the loop over the records, and the return of the four maps.
GetGoMapsFromGenome ==
    /\ pc = "features"
    /\ gsu_calls' = gsu_calls + 1
    /\ feature_num' = -1
    /\ \/ /\ \E An \in SUBSET Annotatable :
               /\ Cardinality(An) <= feature_num
               /\ \E j \in 0..IMin(Cardinality(FeatureCandidates \ An),
                                  feature_num - Cardinality(An)) :
                    \E f \in [An -> OntologyChoices] :
                       LET g == GenomeOf(An \cup Unannotated(An, j), An, f)
                           maps == GetGoMaps(g, Len(g))
                       IN /\ genome_features' = g
                          /\ feature_id_go_id_list_map' = maps.feature_id_go_id_list_map
                          /\ go_id_feature_id_list_map' = maps.go_id_feature_id_list_map
                          /\ go_id_go_term_map' = maps.go_id_go_term_map
                          /\ feature_id_feature_info_map' = maps.feature_id_feature_info_map
          /\ pc' = "terms"
          /\ error' = error
       \/ /\ UNCHANGED mapVars
          /\ pc' = "raised"
          /\ error' = "ServerError"
    /\ UNCHANGED <<params, result_directory, loopVars, p_adjust_calls,
                   adjusted_p_values, enrichment_map, report_calls>>

\* A mutant of ContingencyTable: d forgets the features of the set.
ContingencyTableNoSet(mapped_features, feature_set_ids, feature_ids) ==
    LET a == Cardinality(Range(mapped_features) \cap Range(feature_set_ids))
        b == Len(feature_set_ids) - a
        c == Len(mapped_features) - a
        d == Cardinality(feature_ids) - c
    IN [a |-> a, b |-> b, c |-> c, d |-> d]

\* l.235-241: the four counts of one go_id.
ContingencyTable(mapped_features, feature_set_ids, feature_ids) ==
    LET a == Cardinality(Range(mapped_features) \cap Range(feature_set_ids))
        b == Len(feature_set_ids) - a
        c == Len(mapped_features) - a
        d == Cardinality(feature_ids) - Len(feature_set_ids) - c
    IN [a |-> a, b |-> b, c |-> c, d |-> d]

\* l.243: raw_p_value of a table.
RawPValue(t) == LeftTail(t.a, t.b, t.c, t.d)

\* One iteration of the loop l.232-245; the dict go_id_go_term_map is
\* iterated in an order the source does not fix.
ComputeTerm ==
    /\ pc = "terms"
    /\ \E go_id \in (DOMAIN go_id_go_term_map) \ Range(go_order) :
         LET mapped_features == go_id_feature_id_list_map[go_id]
             t == ContingencyTable(mapped_features, FeatureSetIds,
                                   DOMAIN feature_id_feature_info_map)
             raw_p_value == RawPValue(t)
         IN /\ tables' = Update(tables, go_id, t)
            /\ go_order' = Append(go_order, go_id)
            /\ all_raw_p_value' = Append(all_raw_p_value, raw_p_value)
            /\ go_raw_p_value' = Update(go_raw_p_value, go_id, raw_p_value)
    /\ UNCHANGED <<pc, params, error, result_directory, gsu_calls, feature_num, mapVars,
                   p_adjust_calls, adjusted_p_values, enrichment_map, report_calls>>

\* l.247-248: the loop has ended; one call of stats.p_adjust on the whole
\* vector, empty or not.
AdjustPValues ==
    /\ pc = "terms"
    /\ (DOMAIN go_id_go_term_map) \subseteq Range(go_order)
    /\ p_adjust_calls' = Append(p_adjust_calls, all_raw_p_value)
    /\ adjusted_p_values' = PAdjust(all_raw_p_value)
    /\ pc' = "assemble"
    /\ UNCHANGED <<params, error, result_directory, gsu_calls, feature_num, mapVars, loopVars,
                   enrichment_map, report_calls>>

\* A mutant of IndexOf: the place of the value among the sorted values.
SortedIndexOf(list, value) ==
    1 + Cardinality({l \in 1..Len(list) : RLt(list[l], value)})

\* list.index(value) (l.251): the first place that holds the value.
IndexOf(list, value) ==
    CHOOSE k \in 1..Len(list) :
        list[k] = value /\ \A l \in 1..(k - 1) : list[l] # value

\* l.250-255: the record of every go_id of go_raw_p_value.
AssembleEnrichmentMap ==
    /\ pc = "assemble"
    /\ enrichment_map' =
         [go_id \in DOMAIN go_raw_p_value |->
            LET raw_p_value == go_raw_p_value[go_id]
                pos == IndexOf(all_raw_p_value, raw_p_value)
            IN [raw_p_value |-> raw_p_value,
                adjusted_p_value |-> adjusted_p_values[pos],
                go_term |-> go_id_go_term_map[go_id]]]
    /\ pc' = "report"
    /\ UNCHANGED <<params, error, result_directory, gsu_calls, feature_num, mapVars, loopVars,
                   p_adjust_calls, adjusted_p_values, report_calls>>

\* A label of the map holds a character outside ASCII.  The labels are the
\* unicode strings of the search's decoded response.
HasNonAsciiLabel(map) ==
    \E go_id \in DOMAIN map : map[go_id].go_term \in NonAsciiLabels

\* What _generate_report may raise, given the enrichment map.  The csv file
\* is written first (l.60): open may raise IOError (l.90), and csv.writer
\* raises UnicodeEncodeError on a label outside ASCII (l.94-95), so with
\* such a label nothing after l.95 is reached.  Otherwise the later steps
\* may fail: IOError from the open calls (l.117, l.124, l.125), OSError
\* from _mkdir_p (l.113), an error of the remote calls (l.132, l.76).
ReportErrors(map) ==
    IF HasNonAsciiLabel(map)
    THEN {"IOError", "UnicodeEncodeError"}
    ELSE {"IOError", "OSError", "ServerError"}

\* l.257-264: _generate_report is given the enrichment map; it writes the
\* files and calls the report service (l.53-80), and returns or raises;
\* then run_fe1 returns.  With a label outside ASCII it always raises.
GenerateReport ==
    /\ pc = "report"
    /\ report_calls' = Append(report_calls, enrichment_map)
    /\ \/ /\ ~HasNonAsciiLabel(enrichment_map)
          /\ pc' = "returned"
          /\ error' = error
       \/ /\ pc' = "raised"
          /\ error' \in ReportErrors(enrichment_map)
    /\ UNCHANGED <<params, result_directory, gsu_calls, feature_num, mapVars, loopVars,
                   p_adjust_calls, adjusted_p_values, enrichment_map>>

Next ==
    \/ ValidateRunFe1Params
    \/ MkdirP
    \/ SearchNumFound
    \/ GetGoMapsFromGenome
    \/ ComputeTerm
    \/ AdjustPValues
    \/ AssembleEnrichmentMap
    \/ GenerateReport

Spec == Init /\ [][Next]_vars

\* ================================================================ claims
\* What the claims speak of, stated from the records the search returned and
\* not from the maps built of them.

\* The identifier begins with "GO:", in either case of G and of O.
MatchesGoPrefix(id) ==
    Len(id) >= 3 /\ id[1] \in {"G", "g"} /\ id[2] \in {"O", "o"} /\ id[3] = ":"

Digits == {"0", "1", "2", "3", "4", "5", "6", "7", "8", "9"}

\* The identifier is "GO:", in either case, followed by digits only.
MatchesGoDigits(id) ==
    /\ MatchesGoPrefix(id)
    /\ Len(id) >= 4
    /\ \A k \in 4..Len(id) : id[k] \in Digits

IdsOfRecord(r) == {r.ontology_terms[k][1] : k \in DOMAIN r.ontology_terms}

\* The GO terms of the genome, and the features annotated with one.
GenomeGoTerms ==
    {id \in UNION {IdsOfRecord(genome_features[k]) : k \in DOMAIN genome_features} :
        MatchesGoPrefix(id)}
AnnotatedWith(id) ==
    {genome_features[k].feature_id :
        k \in {l \in DOMAIN genome_features : id \in IdsOfRecord(genome_features[l])}}

MapKeys ==
    (DOMAIN go_id_feature_id_list_map) \cup (DOMAIN go_id_go_term_map)
    \cup UNION {Range(feature_id_go_id_list_map[f]) : f \in DOMAIN feature_id_go_id_list_map}

Parsed == pc \in {"terms", "assemble", "report", "returned"}
Assembled == pc \in {"report", "returned"}

RMinOf(S) == CHOOSE x \in S : \A y \in S : RLe(x, y)

\* The Benjamini-Hochberg adjusted value of place k of the vector p: the
\* least p_(k') * m / k' over the ranks k' at or above the rank of p[k],
\* capped at 1 (the rank of a value is the number of values at most it).
BenjaminiHochberg(p, k) ==
    RMinOf({ROne} \cup
           {RScale(Len(p), Cardinality({l \in DOMAIN p : RLe(p[l], p[j])}), p[j]) :
               j \in {i \in DOMAIN p : RLe(p[k], p[i])}})

\* C1: every table of run_fe1 has a, b, c, d >= 0, also when the feature set
\* of interest holds identifiers outside the feature universe.
C1_CountsNonNegative ==
    \A go_id \in DOMAIN tables :
        /\ tables[go_id].a >= 0
        /\ tables[go_id].b >= 0
        /\ tables[go_id].c >= 0
        /\ tables[go_id].d >= 0

\* C2: every table has a + b + c + d = N (the size of the universe),
\* a + b = n (the size of the feature set of interest) and a + c = the
\* number of features annotated with the term.
C2_SumInvariant ==
    \A go_id \in DOMAIN tables :
        LET t == tables[go_id]
        IN /\ t.a + t.b + t.c + t.d = Len(genome_features)
           /\ t.a + t.b = Len(FeatureSetIds)
           /\ t.a + t.c = Cardinality(AnnotatedWith(go_id))

C2_Witness ==
    \E go_id \in DOMAIN tables :
        /\ tables[go_id].a >= 1
        /\ tables[go_id].c >= 1
        /\ tables[go_id].d >= 0

\* The corrector on the raw values 0.01, 0.01, 0.5 gives 0.015, 0.015, 0.5.
C3_Example ==
    PAdjust(<<Rat(1, 100), Rat(1, 100), Rat(1, 2)>>)
       = <<Rat(3, 200), Rat(3, 200), Rat(1, 2)>>

\* C3: in the final enrichment map every term carries the Benjamini-Hochberg
\* adjusted value of its own place in the raw p-value vector, ties included;
\* the raw values 0.01, 0.01, 0.5 give 0.015, 0.015, 0.5.
C3_OwnAdjustedValue ==
    /\ C3_Example
    /\ Assembled =>
         \A k \in DOMAIN go_order :
            enrichment_map[go_order[k]].adjusted_p_value
               = BenjaminiHochberg(all_raw_p_value, k)

\* Three terms, two of them with the same raw p-value at places that are
\* not the first, and an adjusted value that is not the raw one.
C3_Witness ==
    /\ Assembled
    /\ Len(all_raw_p_value) >= 3
    /\ \E i, j \in DOMAIN all_raw_p_value :
         /\ 1 < i /\ i < j
         /\ all_raw_p_value[i] = all_raw_p_value[j]
         /\ all_raw_p_value[1] # all_raw_p_value[i]
         /\ enrichment_map[go_order[j]].adjusted_p_value # all_raw_p_value[j]

\* C4: a table with a = 0 (and no negative count) has the raw p-value 1.
C4_NoOverlapRawIsOne ==
    \A go_id \in DOMAIN tables :
        LET t == tables[go_id]
        IN (t.a = 0 /\ t.b >= 0 /\ t.c >= 0 /\ t.d >= 0)
              => go_raw_p_value[go_id] = ROne

\* C5: after _get_go_maps_from_genome the feature-to-term map and the
\* term-to-feature map are inverses of each other, each pair listed once,
\* and the three maps hold the same terms.
C5_MutualInverses ==
    Parsed =>
      /\ \A f \in DOMAIN feature_id_go_id_list_map :
           \A t \in Range(feature_id_go_id_list_map[f]) :
              t \in DOMAIN go_id_feature_id_list_map
              /\ f \in Range(go_id_feature_id_list_map[t])
      /\ \A t \in DOMAIN go_id_feature_id_list_map :
           \A f \in Range(go_id_feature_id_list_map[t]) :
              f \in DOMAIN feature_id_go_id_list_map
              /\ t \in Range(feature_id_go_id_list_map[f])
      /\ \A f \in DOMAIN feature_id_go_id_list_map :
           Cardinality(Range(feature_id_go_id_list_map[f]))
              = Len(feature_id_go_id_list_map[f])
      /\ \A t \in DOMAIN go_id_feature_id_list_map :
           Cardinality(Range(go_id_feature_id_list_map[t]))
              = Len(go_id_feature_id_list_map[t])
      /\ DOMAIN go_id_feature_id_list_map = DOMAIN go_id_go_term_map
      /\ DOMAIN go_id_go_term_map
           = UNION {Range(feature_id_go_id_list_map[f]) :
                       f \in DOMAIN feature_id_go_id_list_map}
      /\ \A t \in DOMAIN go_id_feature_id_list_map :
           Range(go_id_feature_id_list_map[t]) = AnnotatedWith(t)

\* A term with two features, one of which has two terms.
C5_Witness ==
    /\ Parsed
    /\ \E t \in DOMAIN go_id_feature_id_list_map :
         /\ Len(go_id_feature_id_list_map[t]) = 2
         /\ \E f \in Range(go_id_feature_id_list_map[t]) :
              Len(feature_id_go_id_list_map[f]) = 2

\* C6 as stated: every term identifier of the three maps is "GO:", in
\* either case, followed by digits.
C6_KeysAreGoDigits == \A id \in MapKeys : MatchesGoDigits(id)

\* C6 as amended: every term identifier of the three maps begins with
\* "GO:", in either case; the entries of the records that do not are in no
\* map, and dropping them raises nothing.
C6_KeysHaveGoPrefix ==
    /\ \A id \in MapKeys : MatchesGoPrefix(id)
    /\ EC1111 \notin MapKeys
    /\ Parsed => (error = "none" /\ MapKeys = GenomeGoTerms)

\* A record with an entry of another namespace was parsed, a GO term kept.
C6_Witness ==
    /\ Parsed
    /\ \E k \in DOMAIN genome_features :
         /\ EC1111 \in IdsOfRecord(genome_features[k])
         /\ GO0001 \in IdsOfRecord(genome_features[k])
    /\ GO0001 \in DOMAIN go_id_go_term_map

\* C7: the map given to the report has one record for every GO term of the
\* genome and no other, each with the term's own label, raw p-value and
\* adjusted p-value.
C7_OneRecordPerTerm ==
    pc = "returned" =>
      /\ Len(report_calls) = 1
      /\ DOMAIN report_calls[1] = GenomeGoTerms
      /\ \A id \in GenomeGoTerms : AnnotatedWith(id) # {}
      /\ Len(go_order) = Cardinality(GenomeGoTerms)
      /\ \A k \in DOMAIN go_order :
           LET r == report_calls[1][go_order[k]]
           IN /\ r.go_term = TermName(go_order[k])
              /\ r.raw_p_value = all_raw_p_value[k]
              /\ r.raw_p_value = RawPValue(tables[go_order[k]])
              /\ r.adjusted_p_value = adjusted_p_values[k]

\* A report of two records from a genome that also holds another namespace.
C7_Witness ==
    /\ pc = "returned"
    /\ Cardinality(DOMAIN report_calls[1]) = 2
    /\ \E k \in DOMAIN genome_features : EC1111 \in IdsOfRecord(genome_features[k])

\* C8: every record's adjusted p-value is at least its raw p-value, and the
\* adjusted values are ordered as the raw values are.
C8_AdjustedMonotone ==
    Assembled =>
      /\ \A id \in DOMAIN enrichment_map :
           RLe(enrichment_map[id].raw_p_value, enrichment_map[id].adjusted_p_value)
      /\ \A i, j \in DOMAIN enrichment_map :
           RLe(enrichment_map[i].raw_p_value, enrichment_map[j].raw_p_value)
              => RLe(enrichment_map[i].adjusted_p_value,
                     enrichment_map[j].adjusted_p_value)

\* Two records of different raw p-values, one adjusted above its raw value.
C8_Witness ==
    /\ Assembled
    /\ \E i, j \in DOMAIN enrichment_map :
         /\ RLt(enrichment_map[i].raw_p_value, enrichment_map[j].raw_p_value)
         /\ RLt(enrichment_map[i].raw_p_value, enrichment_map[i].adjusted_p_value)

\* C9 as stated: the corrector is never given an empty collection.
C9_CorrectorNeverGivenEmpty ==
    \A k \in DOMAIN p_adjust_calls : p_adjust_calls[k] # << >>

\* C9 as amended: when the genome yields no GO term, the corrector is called
\* once, on the empty vector, and returns the empty vector without an
\* error; the enrichment map and the map given to the report are empty.
C9_EmptyBatch ==
    (GenomeGoTerms = {}) =>
      /\ pc \in {"assemble", "report", "returned"} =>
           /\ p_adjust_calls = << << >> >>
           /\ adjusted_p_values = << >>
           /\ error = "none"
      /\ enrichment_map = EmptyDict
      /\ pc = "returned" => report_calls = <<EmptyDict>>

\* A genome with features, one of them with a term of another namespace,
\* and no GO term, has been reported.
C9_Witness ==
    /\ pc = "returned"
    /\ GenomeGoTerms = {}
    /\ \E k \in DOMAIN genome_features : genome_features[k].ontology_terms # << >>

\* C10: with 'genome_ref' or 'workspace_name' missing run_fe1 raises
\* ValueError before the directory is made, before any search and before any
\* report; and the report is made only after the two searches, every raw
\* p-value and the one correction of the whole batch.
C10_ValidationFirst ==
    /\ (ParamKeys \subseteq params) \/ pc \in {"validate", "raised"}
    /\ (pc = "raised" /\ ~(ParamKeys \subseteq params)) =>
          /\ error \in
               {"ValueError: \"genome_ref\" parameter is required, but missing",
                "ValueError: \"workspace_name\" parameter is required, but missing"}
          /\ result_directory = FALSE
          /\ gsu_calls = 0
          /\ p_adjust_calls = << >>
          /\ report_calls = << >>
    /\ (error # "none") <=> (pc = "raised")
    /\ (gsu_calls > 0) => result_directory = TRUE
    /\ (report_calls # << >>) =>
          /\ result_directory = TRUE
          /\ gsu_calls = 2
          /\ DOMAIN go_raw_p_value = DOMAIN go_id_go_term_map
          /\ p_adjust_calls = <<all_raw_p_value>>
          /\ Len(adjusted_p_values) = Len(all_raw_p_value)
          /\ Len(report_calls) = 1

\* run_fe1 has raised for a missing workspace_name, genome_ref being there.
C10_Witness ==
    /\ pc = "raised"
    /\ "genome_ref" \in params
    /\ "workspace_name" \notin params

====
